---- MODULE Spec2Model ----
(***************************************************************************)
(* Model of flatten_repo.py: the inclusion filter (should_include_file),   *)
(* the path encoder (get_safe_filename) and the flatten driver             *)
(* (flatten_repository, run from main).                                    *)
(*                                                                         *)
(* Strings are sequences of one-character strings, so that str.replace,    *)
(* str.lower and Path.suffix are computed rather than assumed.  A path is  *)
(* the sequence of its parts (pathlib's Path.parts), each part a string.   *)
(***************************************************************************)
EXTENDS Naturals, Sequences, FiniteSets, Bags, TLC

VARIABLES
    pc,                      \* where main is: "start", "resolved", "walk", "done", "failed"
                             \*   ("idle" when the script is not run)
    run,                     \* number of the current invocation of the script
    source_dir,              \* parts of the (resolved) source directory
    srcExists,               \* whether source_dir names an existing directory
    include_all_extensions,  \* the --include-all flag
    tree,                    \* relative paths of the regular files under source_dir
    pending,                 \* entries rglob('*') has not yielded yet
    processed_files,         \* the set of safe names of line 81
    output_exists,           \* whether the output directory exists
    output_files,            \* output directory: file name -> content
    stdout,                  \* bag of lines printed to stdout
    stderr,                  \* bag of lines printed to stderr
    exitCode,                \* process exit status: << >> while running, then <<0>> or <<1>>
    sif_path,                \* should_include_file called alone: its path argument
    sif_flag,                \*   its include_all_extensions argument
    sif_ret,                 \*   << >> before the call, then <<its return value>>
    gsf_path,                \* get_safe_filename called alone: its argument
    gsf_ret                  \*   << >> before the call, then <<its return value>>

driverVars ==
    << pc, run, source_dir, srcExists, include_all_extensions, tree, pending,
       processed_files, output_exists, output_files, stdout, stderr, exitCode >>

sifVars ==
    << sif_path, sif_flag, sif_ret >>

gsfVars ==
    << gsf_path, gsf_ret >>

vars ==
    << driverVars, sifVars, gsfVars >>

(***************************************************************************)
(* Bounds of the model.                                                    *)
(***************************************************************************)
\* most regular files in the source tree
MaxFiles == 3

\* most invocations of the script in a row
MaxRuns == 2

\* most parts, after the anchor, of a path handed to should_include_file alone
MaxDepth == 3

\* longest string handed to get_safe_filename alone
MaxLen == 5

(***************************************************************************)
(* Module constants, lines 13-36.                                          *)
(***************************************************************************)
FILENAME_PATH_SEPARATOR ==
    <<"_","_">>

EXCLUDED_DIRS ==
    { <<"n","o","d","e","_","m","o","d","u","l","e","s">>,
      <<".","g","i","t">>,
      <<".","v","e","n","v">>,
      <<"v","e","n","v">>,
      <<"_","_","p","y","c","a","c","h","e","_","_">>,
      <<"d","i","s","t">>,
      <<"b","u","i","l","d">>,
      <<"d","a","t","a">> }

EXCLUDED_FILES ==
    { <<".","g","i","t","i","g","n","o","r","e">>,
      <<".","D","S","_","S","t","o","r","e">>,
      <<"p","a","c","k","a","g","e","-","l","o","c","k",".","j","s","o","n">>,
      <<"y","a","r","n",".","l","o","c","k">>,
      <<"u","v",".","l","o","c","k">>,
      <<"_","_","i","n","i","t","_","_",".","p","y">>,
      <<".","e","n","v">>,
      <<".","e","n","v",".","l","o","c","a","l">>,
      <<".","e","n","v",".","d","e","v","e","l","o","p","m","e","n","t">>,
      <<".","e","n","v",".","p","r","o","d","u","c","t","i","o","n">>,
      <<".","e","n","v",".","t","e","s","t">>,
      <<".","e","n","v",".","s","t","a","g","i","n","g">> }

EXCLUDED_EXTENSIONS ==
    { <<".","p","y","c">>,
      <<".","p","y","o">>,
      <<".","j","p","g">>,
      <<".","j","p","e","g">>,
      <<".","p","n","g">>,
      <<".","g","i","f">>,
      <<".","i","c","o">>,
      <<".","s","v","g">>,
      <<".","p","d","f">>,
      <<".","l","o","c","k">>,
      <<".","l","o","g">>,
      <<".","m","a","p">> }

DEFAULT_INCLUDE_EXTENSIONS ==
    { <<".","p","y">>,
      <<".","j","s">>,
      <<".","j","s","x">>,
      <<".","t","s">>,
      <<".","t","s","x">>,
      <<".","j","s","o","n">>,
      <<".","y","a","m","l">>,
      <<".","y","m","l">>,
      <<".","t","o","m","l">>,
      <<".","m","d">>,
      <<".","t","x","t">>,
      <<".","r","s","t">> }

(***************************************************************************)
(* String and path primitives the script calls.                            *)
(***************************************************************************)
UpperToLower ==
    { <<"A","a">>, <<"B","b">>, <<"C","c">>, <<"D","d">>, <<"E","e">>, <<"F","f">>,
      <<"G","g">>, <<"H","h">>, <<"I","i">>, <<"J","j">>, <<"K","k">>, <<"L","l">>,
      <<"M","m">>, <<"N","n">>, <<"O","o">>, <<"P","p">>, <<"Q","q">>, <<"R","r">>,
      <<"S","s">>, <<"T","t">>, <<"U","u">>, <<"V","v">>, <<"W","w">>, <<"X","x">>,
      <<"Y","y">>, <<"Z","z">> }

\* str.lower(): every upper-case letter becomes its lower-case letter
lower(s) ==
    [ i \in 1..Len(s) |->
        IF \E m \in UpperToLower : m[1] = s[i]
        THEN (CHOOSE m \in UpperToLower : m[1] = s[i])[2]
        ELSE s[i] ]

\* str.rfind(c), 1-based; 0 when c does not occur
rfind(s, c) ==
    LET hits == { i \in 1..Len(s) : s[i] = c }
    IN  IF hits = {} THEN 0 ELSE CHOOSE i \in hits : \A j \in hits : j <= i

\* Path.name: the final part
name(path) ==
    path[Len(path)]

\* Path.suffix: from the last dot of the name on, unless that dot is the
\* first or the last character of the name (or there is none)
suffix(path) ==
    LET n == name(path)
        i == rfind(n, ".")
    IN  IF 1 < i /\ i < Len(n) THEN SubSeq(n, i, Len(n)) ELSE << >>

\* str.replace(old, new): left to right, non-overlapping; old is not empty
RECURSIVE replace(_, _, _)
replace(s, old, new) ==
    IF Len(s) < Len(old) THEN s
    ELSE IF SubSeq(s, 1, Len(old)) = old
         THEN new \o replace(SubSeq(s, Len(old) + 1, Len(s)), old, new)
         ELSE << Head(s) >> \o replace(Tail(s), old, new)

\* str(path) of a relative path: its parts joined by '/'
RECURSIVE str(_)
str(parts) ==
    IF Len(parts) = 0 THEN << >>
    ELSE IF Len(parts) = 1 THEN parts[1]
    ELSE parts[1] \o <<"/">> \o str(Tail(parts))

(***************************************************************************)
(* should_include_file, lines 38-54.                                       *)
(***************************************************************************)
\* a variant that consults the flag before the denylists
should_include_file_flag_first(path, include_all) ==
    \/ include_all
    \/ /\ ~ \E i \in 1..Len(path) : path[i] \in EXCLUDED_DIRS
       /\ name(path) \notin EXCLUDED_FILES
       /\ lower(suffix(path)) \notin EXCLUDED_EXTENSIONS
       /\ lower(suffix(path)) \in DEFAULT_INCLUDE_EXTENSIONS

should_include_file(path, include_all) ==
    IF \E i \in 1..Len(path) : path[i] \in EXCLUDED_DIRS THEN FALSE
    ELSE IF name(path) \in EXCLUDED_FILES THEN FALSE
    ELSE IF lower(suffix(path)) \in EXCLUDED_EXTENSIONS THEN FALSE
    ELSE include_all \/ lower(suffix(path)) \in DEFAULT_INCLUDE_EXTENSIONS

(***************************************************************************)
(* get_safe_filename, lines 56-58.                                         *)
(***************************************************************************)
\* a variant that writes a single underscore for each slash
get_safe_filename_single(path) ==
    replace(path, <<"/">>, <<"_">>)

get_safe_filename(path) ==
    replace(path, <<"/">>, FILENAME_PATH_SEPARATOR)

(***************************************************************************)
(* The state of the driver while a function is exercised on its own.       *)
(***************************************************************************)
DriverIdle ==
    /\ pc = "idle"
    /\ run = 0
    /\ source_dir = << >>
    /\ srcExists = FALSE
    /\ include_all_extensions = FALSE
    /\ tree = {}
    /\ pending = {}
    /\ processed_files = {}
    /\ output_exists = FALSE
    /\ output_files = << >>
    /\ stdout = EmptyBag
    /\ stderr = EmptyBag
    /\ exitCode = << >>

SifIdle ==
    /\ sif_path = << >>
    /\ sif_flag = FALSE
    /\ sif_ret = << >>

GsfIdle ==
    /\ gsf_path = << >>
    /\ gsf_ret = << >>

(***************************************************************************)
(* should_include_file on its own: every path of at most MaxDepth parts    *)
(* over SifParts, relative or anchored at '/', and both flag values.       *)
(***************************************************************************)
SifParts ==
    { <<"s","r","c">>,
      <<"d","a","t","a">>,
      <<"b","u","i","l","d">>,
      <<".","g","i","t">>,
      <<"D","a","t","a">>,
      <<"b",".","p","y">>,
      <<"B",".","P","Y">>,
      <<"x",".","P","n","g">>,
      <<"a",".","l","o","g">>,
      <<"n","o","t","e","s">>,
      <<".","e","n","v">>,
      <<"_","_","i","n","i","t","_","_",".","p","y">>,
      <<"a",".","p","y",".","b","a","k">>,
      <<"d","a","t","a",".","p","y">> }

SifRelPaths ==
    UNION { [ 1..n -> SifParts ] : n \in 1..MaxDepth }

SifPaths ==
    SifRelPaths \cup { << <<"/">> >> \o p : p \in SifRelPaths }

InitSif ==
    /\ DriverIdle
    /\ GsfIdle
    /\ sif_path \in SifPaths
    /\ sif_flag \in BOOLEAN
    /\ sif_ret = << >>

CallSif ==
    /\ sif_path # << >>
    /\ sif_ret = << >>
    /\ sif_ret' = << should_include_file(sif_path, sif_flag) >>
    /\ UNCHANGED << driverVars, gsfVars, sif_path, sif_flag >>

NextSif ==
    CallSif

SpecSif ==
    InitSif /\ [][NextSif]_vars

(***************************************************************************)
(* get_safe_filename on its own: every relative path string of at most     *)
(* MaxLen characters over GsfChars (parts are not empty, so no leading,    *)
(* trailing or doubled '/').                                               *)
(***************************************************************************)
GsfChars ==
    { "a", "_", "/" }

contains(s, sub) ==
    \E i \in 1..(Len(s) + 1 - Len(sub)) : SubSeq(s, i, i + Len(sub) - 1) = sub

IsRelPathString(s) ==
    /\ Len(s) > 0
    /\ s[1] # "/"
    /\ s[Len(s)] # "/"
    /\ ~ contains(s, <<"/","/">>)

GsfStrings ==
    { s \in UNION { [ 1..n -> GsfChars ] : n \in 1..MaxLen } : IsRelPathString(s) }

InitGsf ==
    /\ DriverIdle
    /\ SifIdle
    /\ gsf_path \in GsfStrings
    /\ gsf_ret = << >>

CallGsf ==
    /\ gsf_path # << >>
    /\ gsf_ret = << >>
    /\ gsf_ret' = << get_safe_filename(gsf_path) >>
    /\ UNCHANGED << driverVars, sifVars, gsf_path >>

NextGsf ==
    CallGsf

SpecGsf ==
    InitGsf /\ [][NextGsf]_vars

(***************************************************************************)
(* The flatten driver: main (lines 114-138) running flatten_repository     *)
(* (lines 60-112) on a source tree.                                        *)
(***************************************************************************)
Anchor ==
    <<"/">>

FLAT_SUFFIX ==
    <<"_","f","l","a","t">>

\* source directories the script is pointed at
Roots ==
    { << Anchor, <<"h","o","m","e">>, <<"p","r","o","j">> >>,
      << Anchor, <<"d","a","t","a">>, <<"p","r","o","j">> >>,
      << Anchor, <<"h","o","m","e">>, <<"b","u","i","l","d">> >>,
      << Anchor >> }

\* regular files a source tree is drawn from, as paths relative to its root
File_a_b_py ==
    << <<"a">>, <<"b",".","p","y">> >>

File_a_b_py_flat1 ==
    << <<"a","_","b",".","p","y">> >>

File_a_b_py_flat2 ==
    << <<"a","_","_","b",".","p","y">> >>

File_notes ==
    << <<"n","o","t","e","s">> >>

File_a_x_png ==
    << <<"a">>, <<"x",".","P","N","G">> >>

FileUniverse ==
    { File_a_b_py, File_a_b_py_flat1, File_a_b_py_flat2, File_notes, File_a_x_png }

Trees ==
    { t \in SUBSET FileUniverse : Cardinality(t) <= MaxFiles }

\* Path.parents: the proper prefixes of the parts
parents(path) ==
    { SubSeq(path, 1, n) : n \in 1..(Len(path) - 1) }

\* the directories of a tree: the proper prefixes of its files' paths
Dirs(t) ==
    UNION { parents(f) : f \in t }

\* what source_dir.rglob('*') yields: every directory and file below the root
rglob(t) ==
    t \cup Dirs(t)

\* a variant that hands the path relative to the root to the filter
file_path_relative(root, e) ==
    e

\* the entry's path as rglob yields it: the root's parts, then the entry's
file_path(root, e) ==
    root \o e

\* source_dir.with_name(f"{source_dir.name}_flat")
output_dir(root) ==
    SubSeq(root, 1, Len(root) - 1) \o << name(root) \o FLAT_SUFFIX >>

\* str(file_path.relative_to(source_dir))
RelPathOf ==
    [ e \in FileUniverse |-> str(e) ]

rel_path(e) ==
    RelPathOf[e]

\* get_safe_filename(rel_path), line 98
SafeNameOf ==
    [ e \in FileUniverse |-> get_safe_filename(RelPathOf[e]) ]

safe_name(e) ==
    SafeNameOf[e]

\* the tests of lines 89 and 92 both pass
AcceptedOf ==
    [ root \in Roots, e \in FileUniverse, include_all \in BOOLEAN |->
        /\ output_dir(root) \notin parents(file_path(root, e))
        /\ should_include_file(file_path(root, e), include_all) ]

accepted(root, e, include_all) ==
    AcceptedOf[root, e, include_all]

NoFiles ==
    [ n \in {} |-> << >> ]

\* a file left in the output directory before the first run
StaleFiles ==
    [ n \in { safe_name(File_a_b_py) } |-> [ src |-> <<"o","l","d">>, ok |-> TRUE, run |-> 0 ] ]

\* a variant that empties the output directory before using it
mkdir_recreate(exists, files) ==
    NoFiles

\* output_dir.mkdir(exist_ok=True): an existing directory is kept as it is
mkdir(exists, files) ==
    IF exists THEN files ELSE NoFiles

\* a variant that forgets the name
processed_add_nothing(processed, n) ==
    processed

\* processed_files.add(safe_name)
processed_add(processed, n) ==
    processed \cup { n }

\* a variant that takes the name back when the copy fails
processed_discard(processed, n) ==
    processed \ { n }

\* the except clause of lines 111-112 leaves processed_files as it is
processed_after_error(processed, n) ==
    processed

\* a variant in which the handler lets the error end the traversal
after_copy_error_raise ==
    "failed"

\* where the except clause of lines 111-112 leaves the loop: in the traversal
after_copy_error ==
    "walk"

\* the file shutil.copy2 leaves at output_dir / n
write(files, n, content) ==
    [ m \in DOMAIN files \cup { n } |-> IF m = n THEN content ELSE files[m] ]

print(out, kind, text) ==
    out (+) SetToBag({ << kind, text >> })

Init ==
    /\ SifIdle
    /\ GsfIdle
    /\ pc = "start"
    /\ run = 1
    /\ source_dir \in Roots
    /\ srcExists \in BOOLEAN
    /\ include_all_extensions \in BOOLEAN
    /\ tree \in { t \in Trees : srcExists \/ t = {} }
    /\ pending = {}
    /\ processed_files = {}
    /\ output_exists \in BOOLEAN
    /\ output_files \in IF output_exists THEN { NoFiles, StaleFiles } ELSE { NoFiles }
    /\ stdout = EmptyBag
    /\ stderr = EmptyBag
    /\ exitCode = << >>

\* line 120: Path(p).resolve() succeeds (it does so for a path that names nothing)
ParseArgs ==
    /\ pc = "start"
    /\ pc' = "resolved"
    /\ UNCHANGED << run, source_dir, srcExists, include_all_extensions, tree, pending,
                    processed_files, output_exists, output_files, stdout, stderr,
                    exitCode, sifVars, gsfVars >>

\* line 120: resolve() raises (a symlink loop); nothing catches it
ParseArgsFail ==
    /\ pc = "start"
    /\ pc' = "failed"
    /\ stderr' = print(stderr, "Traceback", << >>)
    /\ exitCode' = << 1 >>
    /\ UNCHANGED << run, source_dir, srcExists, include_all_extensions, tree, pending,
                    processed_files, output_exists, output_files, stdout,
                    sifVars, gsfVars >>

\* lines 74-84: the output directory is made or reused, the traversal begins
MakeOutputDir ==
    /\ pc = "resolved"
    /\ Len(source_dir) > 1
    /\ output_files' = mkdir(output_exists, output_files)
    /\ output_exists' = TRUE
    /\ processed_files' = {}
    /\ pending' = IF srcExists THEN rglob(tree) ELSE {}
    /\ pc' = "walk"
    /\ UNCHANGED << run, source_dir, srcExists, include_all_extensions, tree,
                    stdout, stderr, exitCode, sifVars, gsfVars >>

\* lines 77-78 raise (the root has no name, or mkdir fails); lines 136-138
MakeOutputDirFail ==
    /\ pc = "resolved"
    /\ Len(source_dir) = 1 \/ ~ output_exists
    /\ pc' = "failed"
    /\ stderr' = print(stderr, "Error", << >>)
    /\ exitCode' = << 1 >>
    /\ UNCHANGED << run, source_dir, srcExists, include_all_extensions, tree, pending,
                    processed_files, output_exists, output_files, stdout,
                    sifVars, gsfVars >>

\* lines 85-86
SkipDir(e) ==
    /\ pc = "walk"
    /\ e \in pending
    /\ e \notin tree
    /\ pending' = pending \ { e }
    /\ UNCHANGED << pc, run, source_dir, srcExists, include_all_extensions, tree,
                    processed_files, output_exists, output_files, stdout, stderr,
                    exitCode, sifVars, gsfVars >>

\* lines 88-93
SkipFile(e) ==
    /\ pc = "walk"
    /\ e \in pending
    /\ e \in tree
    /\ ~ accepted(source_dir, e, include_all_extensions)
    /\ pending' = pending \ { e }
    /\ UNCHANGED << pc, run, source_dir, srcExists, include_all_extensions, tree,
                    processed_files, output_exists, output_files, stdout, stderr,
                    exitCode, sifVars, gsfVars >>

\* lines 95-103
Duplicate(e) ==
    /\ pc = "walk"
    /\ e \in pending
    /\ e \in tree
    /\ accepted(source_dir, e, include_all_extensions)
    /\ safe_name(e) \in processed_files
    /\ stderr' = print(stderr, "Warning", rel_path(e))
    /\ pending' = pending \ { e }
    /\ UNCHANGED << pc, run, source_dir, srcExists, include_all_extensions, tree,
                    processed_files, output_exists, output_files, stdout,
                    exitCode, sifVars, gsfVars >>

\* lines 95-110
Copy(e) ==
    /\ pc = "walk"
    /\ e \in pending
    /\ e \in tree
    /\ accepted(source_dir, e, include_all_extensions)
    /\ safe_name(e) \notin processed_files
    /\ processed_files' = processed_add(processed_files, safe_name(e))
    /\ output_files' = write(output_files, safe_name(e),
                             [ src |-> rel_path(e), ok |-> TRUE, run |-> run ])
    /\ stdout' = print(stdout, "Copied", rel_path(e))
    /\ pending' = pending \ { e }
    /\ UNCHANGED << pc, run, source_dir, srcExists, include_all_extensions, tree,
                    output_exists, stderr, exitCode, sifVars, gsfVars >>

\* lines 95-109, 111-112: copy2 raises, either before it creates the
\* destination or after it has written to it
CopyFail(e, wrote) ==
    /\ pc = "walk"
    /\ e \in pending
    /\ e \in tree
    /\ accepted(source_dir, e, include_all_extensions)
    /\ safe_name(e) \notin processed_files
    /\ processed_files' =
          processed_after_error(processed_add(processed_files, safe_name(e)), safe_name(e))
    /\ output_files' =
          IF wrote
          THEN write(output_files, safe_name(e),
                     [ src |-> rel_path(e), ok |-> FALSE, run |-> run ])
          ELSE output_files
    /\ stderr' = print(stderr, "Error copying", rel_path(e))
    /\ pending' = pending \ { e }
    /\ pc' = after_copy_error
    /\ UNCHANGED << run, source_dir, srcExists, include_all_extensions, tree,
                    output_exists, stdout, exitCode, sifVars, gsfVars >>

\* the loop ends; line 135; the script exits with status 0
Finish ==
    /\ pc = "walk"
    /\ pending = {}
    /\ stdout' = print(stdout, "Summary", name(output_dir(source_dir)))
    /\ exitCode' = << 0 >>
    /\ pc' = "done"
    /\ UNCHANGED << run, source_dir, srcExists, include_all_extensions, tree, pending,
                    processed_files, output_exists, output_files, stderr,
                    sifVars, gsfVars >>

\* the script is run again on the same source tree with the same arguments
Rerun ==
    /\ pc \in { "done", "failed" }
    /\ run < MaxRuns
    /\ run' = run + 1
    /\ pc' = "start"
    /\ pending' = {}
    /\ processed_files' = {}
    /\ stdout' = EmptyBag
    /\ stderr' = EmptyBag
    /\ exitCode' = << >>
    /\ UNCHANGED << source_dir, srcExists, include_all_extensions, tree,
                    output_exists, output_files, sifVars, gsfVars >>

Next ==
    \/ ParseArgs
    \/ ParseArgsFail
    \/ MakeOutputDir
    \/ MakeOutputDirFail
    \/ \E e \in pending : SkipDir(e)
    \/ \E e \in pending : SkipFile(e)
    \/ \E e \in pending : Duplicate(e)
    \/ \E e \in pending : Copy(e)
    \/ \E e \in pending, wrote \in BOOLEAN : CopyFail(e, wrote)
    \/ Finish
    \/ Rerun

Spec ==
    Init /\ [][Next]_vars

(***************************************************************************)
(* What a run has reported and done, read off its state.                   *)
(***************************************************************************)
Copied(e) ==
    CopiesIn(<< "Copied", rel_path(e) >>, stdout)

CopyErrors(e) ==
    CopiesIn(<< "Error copying", rel_path(e) >>, stderr)

Warnings(e) ==
    CopiesIn(<< "Warning", rel_path(e) >>, stderr)

Attempts(e) ==
    Copied(e) + CopyErrors(e)

Summaries ==
    CopiesIn(<< "Summary", name(output_dir(source_dir)) >>, stdout)

Accepted(e) ==
    accepted(source_dir, e, include_all_extensions)

Visited ==
    IF pc \in { "walk", "done" } /\ srcExists THEN rglob(tree) \ pending ELSE {}

RootDenied ==
    \E i \in 1..Len(source_dir) : source_dir[i] \in EXCLUDED_DIRS

\* the file the current run left under the safe name of e, if any
WrittenThisRun(e) ==
    /\ safe_name(e) \in DOMAIN output_files
    /\ output_files[safe_name(e)].run = run

HoldsCopyOf(e) ==
    /\ safe_name(e) \in DOMAIN output_files
    /\ output_files[safe_name(e)] = [ src |-> rel_path(e), ok |-> TRUE, run |-> run ]

(***************************************************************************)
(* C1.  should_include_file(path, flag) is true iff no directory component *)
(* of the path (a part before the base name) is in the directory denylist, *)
(* the base name is not in the filename denylist, the lower-cased          *)
(* extension is not in the extension denylist, and the flag is set or the  *)
(* lower-cased extension is in the allowlist.                              *)
(***************************************************************************)
C1_IncludedIffSurvivesDenylists ==
    sif_ret # << >> =>
        sif_ret[1] =
            ( /\ ~ \E i \in 1..(Len(sif_path) - 1) : sif_path[i] \in EXCLUDED_DIRS
              /\ name(sif_path) \notin EXCLUDED_FILES
              /\ lower(suffix(sif_path)) \notin EXCLUDED_EXTENSIONS
              /\ sif_flag \/ lower(suffix(sif_path)) \in DEFAULT_INCLUDE_EXTENSIONS )

(***************************************************************************)
(* C2.  The denylists take precedence over the flag: a path with a         *)
(* denylisted directory name among its parts, at any depth, or with an     *)
(* extension that is in the excluded set once lower-cased, is rejected     *)
(* for both values of the flag.                                            *)
(***************************************************************************)
C2_DenylistsBeatFlag ==
    ( /\ sif_ret # << >>
      /\ \/ \E i \in 1..Len(sif_path) : sif_path[i] \in EXCLUDED_DIRS
         \/ lower(suffix(sif_path)) \in EXCLUDED_EXTENSIONS )
    => sif_ret = << FALSE >>

\* the flag is set and an extension written in upper case is refused
C2_Witness ==
    /\ sif_ret = << FALSE >>
    /\ sif_flag
    /\ lower(suffix(sif_path)) \in EXCLUDED_EXTENSIONS
    /\ suffix(sif_path) \notin EXCLUDED_EXTENSIONS
    /\ ~ \E i \in 1..Len(sif_path) : sif_path[i] \in EXCLUDED_DIRS

HasMarker(s) ==
    contains(s, FILENAME_PATH_SEPARATOR)

Ambiguous(s) ==
    HasMarker(s) \/ contains(s, <<"_","/">>)

(***************************************************************************)
(* C3.  For a relative path P without the marker '__', the safe name has   *)
(* no '/' and replacing the marker by '/' in it gives back P; two distinct *)
(* paths have the same safe name only if one of them contains the marker.  *)
(***************************************************************************)
C3_RoundTripWithoutMarker ==
    gsf_ret # << >> =>
        /\ ~ HasMarker(gsf_path) =>
              /\ ~ contains(gsf_ret[1], <<"/">>)
              /\ replace(gsf_ret[1], FILENAME_PATH_SEPARATOR, <<"/">>) = gsf_path
        /\ \A q \in GsfStrings :
              (q # gsf_path /\ get_safe_filename(q) = gsf_ret[1])
                  => (HasMarker(gsf_path) \/ HasMarker(q))

\* C3 as amended: the same, for paths that contain neither the marker '__'
\* nor an underscore right before a separator ('_/').
C3_RoundTripUnambiguous ==
    gsf_ret # << >> =>
        /\ ~ contains(gsf_ret[1], <<"/">>)
        /\ ~ Ambiguous(gsf_path) =>
              replace(gsf_ret[1], FILENAME_PATH_SEPARATOR, <<"/">>) = gsf_path
        /\ \A q \in GsfStrings :
              (q # gsf_path /\ get_safe_filename(q) = gsf_ret[1])
                  => (Ambiguous(gsf_path) \/ Ambiguous(q))

\* a path with a separator and an underscore after it has been encoded
C3_Witness ==
    /\ gsf_ret # << >>
    /\ ~ Ambiguous(gsf_path)
    /\ contains(gsf_path, <<"/","_">>)
    /\ replace(gsf_ret[1], FILENAME_PATH_SEPARATOR, <<"/">>) = gsf_path

NoCopyErrors ==
    \A e \in tree : CopyErrors(e) = 0

(***************************************************************************)
(* C4.  A run on a tree holding a/b.py and a_b.py, with every copy         *)
(* succeeding, copies exactly one of the two and warns exactly once,       *)
(* naming the other, because both have the safe name a__b.py.              *)
(***************************************************************************)
C4_OneCopiedOneWarning ==
    ( /\ pc = "done"
      /\ ~ RootDenied
      /\ tree = { File_a_b_py, File_a_b_py_flat1 }
      /\ NoCopyErrors )
    => /\ safe_name(File_a_b_py) = safe_name(File_a_b_py_flat1)
       /\ Copied(File_a_b_py) + Copied(File_a_b_py_flat1) = 1
       /\ Warnings(File_a_b_py) + Warnings(File_a_b_py_flat1) = 1
       /\ \A e \in tree : Copied(e) = 1 => Warnings(e) = 0

\* C4 as amended: a/b.py and a_b.py have the distinct safe names a__b.py and
\* a_b.py, so they do not collide with each other: a_b.py is copied without
\* a warning, and so is a/b.py unless the tree also holds a__b.py.  It is
\* a/b.py and a__b.py that share a safe name: of those, exactly one is
\* copied and exactly one warning names the other.
C4_CollisionIsWithDoubleUnderscore ==
    ( /\ pc = "done"
      /\ ~ RootDenied
      /\ NoCopyErrors )
    => /\ { File_a_b_py, File_a_b_py_flat1 } \subseteq tree =>
             /\ safe_name(File_a_b_py) # safe_name(File_a_b_py_flat1)
             /\ Copied(File_a_b_py_flat1) = 1
             /\ Warnings(File_a_b_py_flat1) = 0
             /\ HoldsCopyOf(File_a_b_py_flat1)
             /\ File_a_b_py_flat2 \notin tree =>
                   /\ Copied(File_a_b_py) = 1
                   /\ Warnings(File_a_b_py) = 0
                   /\ HoldsCopyOf(File_a_b_py)
       /\ { File_a_b_py, File_a_b_py_flat2 } \subseteq tree =>
             /\ safe_name(File_a_b_py) = safe_name(File_a_b_py_flat2)
             /\ \E e \in { File_a_b_py, File_a_b_py_flat2 } :
                   \E f \in { File_a_b_py, File_a_b_py_flat2 } \ { e } :
                      /\ Copied(e) = 1
                      /\ Warnings(e) = 0
                      /\ HoldsCopyOf(e)
                      /\ Copied(f) = 0
                      /\ Warnings(f) = 1

\* a run on exactly a/b.py and a_b.py has ended with both copied
C4_Witness ==
    /\ pc = "done"
    /\ ~ RootDenied
    /\ tree = { File_a_b_py, File_a_b_py_flat1 }
    /\ Copied(File_a_b_py) = 1
    /\ Copied(File_a_b_py_flat1) = 1
    /\ Cardinality(DOMAIN output_files) = 2

(***************************************************************************)
(* C5.  No step of any run removes a file from the output directory:       *)
(* every name present before a step is present after it, whether copies    *)
(* fail or not, and from one run to the next.                              *)
(***************************************************************************)
C5_NeverRemovesOutputFiles ==
    [][ DOMAIN output_files \subseteq DOMAIN output_files' ]_vars

\* a second run has ended, with a failed copy, on an output directory that
\* still holds the file left there before the first run
C5_Witness ==
    /\ run = 2
    /\ pc = "done"
    /\ \E e \in tree : CopyErrors(e) = 1
    /\ \E n \in DOMAIN output_files : output_files[n].run = 0
    /\ \E n \in DOMAIN output_files : output_files[n].run = 1

(***************************************************************************)
(* C6.  A failed copy of an accepted file is not fatal: the traversal goes *)
(* on, exactly one error line names the file, and the run ends with the    *)
(* summary line and exit status 0 with every other eligible file copied    *)
(* (each accepted file is copied, or failed itself, or was dropped as the  *)
(* duplicate of a file that was attempted).                                *)
(***************************************************************************)
C6_CopyFailureNotFatal ==
    \A e \in tree :
        CopyErrors(e) >= 1 =>
            /\ pc \in { "walk", "done" }
            /\ exitCode # << 1 >>
            /\ CopyErrors(e) = 1
            /\ Copied(e) = 0
            /\ pc = "done" =>
                  /\ exitCode = << 0 >>
                  /\ Summaries = 1
                  /\ \A f \in tree \ { e } :
                        Accepted(f) =>
                            /\ Copied(f) + CopyErrors(f) + Warnings(f) = 1
                            /\ Copied(f) = 1 => HoldsCopyOf(f)
                            /\ Warnings(f) = 1 =>
                                  \E g \in tree \ { f } :
                                     /\ safe_name(g) = safe_name(f)
                                     /\ Attempts(g) = 1

\* a run has ended in which one copy failed and another file was copied
C6_Witness ==
    /\ pc = "done"
    /\ exitCode = << 0 >>
    /\ \E e \in tree : \E f \in tree \ { e } :
          /\ CopyErrors(e) = 1
          /\ Copied(f) = 1
          /\ HoldsCopyOf(f)

(***************************************************************************)
(* C7.  A failure before the traversal begins (the source path names no    *)
(* existing directory or cannot be resolved, or the output directory       *)
(* cannot be made) aborts the run: nothing is copied, an error is          *)
(* reported, no summary is printed and the exit status is not 0.           *)
(***************************************************************************)
C7_SetupFailureAborts ==
    ( /\ pc \in { "done", "failed" }
      /\ ~ srcExists \/ pc = "failed" )
    => /\ pc = "failed"
       /\ exitCode = << 1 >>
       /\ stderr # EmptyBag
       /\ Summaries = 0
       /\ \A e \in tree : Copied(e) = 0

(***************************************************************************)
(* C8.  First seen wins: within a run at most one copy is attempted for    *)
(* each safe name, for the first accepted entry visited that has it; every *)
(* later accepted entry with that name gets exactly one warning naming it  *)
(* and no copy; processed_files only grows during the run.                 *)
(***************************************************************************)
C8_State ==
    pc \in { "walk", "done" } =>
        \A e \in tree :
            LET same == { f \in tree : Accepted(f) /\ safe_name(f) = safe_name(e) }
            IN  IF Accepted(e) /\ e \in Visited
                THEN /\ safe_name(e) \in processed_files
                     /\ \E g \in same \cap Visited :
                           /\ Attempts(g) = 1
                           /\ Warnings(g) = 0
                           /\ \A h \in same \ { g } : Attempts(h) = 0
                     /\ Attempts(e) = 0 => Warnings(e) = 1
                ELSE Attempts(e) = 0 /\ Warnings(e) = 0

C8_Step ==
    /\ (pc = "walk" /\ pc' \in { "walk", "done" }) => processed_files \subseteq processed_files'
    /\ \A e \in tree :
          ( /\ pc = "walk"
            /\ CopiesIn(<< "Copied", rel_path(e) >>, stdout')
                 + CopiesIn(<< "Error copying", rel_path(e) >>, stderr') > Attempts(e) )
          => ~ \E f \in Visited : f \in tree /\ Accepted(f) /\ safe_name(f) = safe_name(e)

\* C8: the state part holds in every state and the step part of every step
C8_FirstSeenWins ==
    [] C8_State /\ [][ C8_Step ]_vars

\* a run has ended in which the file visited second was dropped with a warning
C8_Witness ==
    /\ pc = "done"
    /\ \E e \in tree : \E f \in tree \ { e } :
          /\ safe_name(e) = safe_name(f)
          /\ Copied(e) = 1
          /\ Warnings(f) = 1
          /\ output_files[safe_name(e)].src = rel_path(e)

(***************************************************************************)
(* C9.  The filter is given absolute paths, so the parts of the source     *)
(* root are matched against the directory denylist too: when one of them   *)
(* is denylisted, every entry is rejected for both flag values, nothing is *)
(* copied, and yet the output directory is made and success is reported.   *)
(***************************************************************************)
C9_DenylistedRootCopiesNothing ==
    ( RootDenied /\ pc \in { "walk", "done" } ) =>
        /\ output_exists
        /\ processed_files = {}
        /\ \A e \in tree : Attempts(e) = 0 /\ Warnings(e) = 0 /\ ~ WrittenThisRun(e)
        /\ pc = "done" => ( exitCode = << 0 >> /\ Summaries = 1 )

\* a run with --include-all on a root named build, holding a/b.py, has ended
C9_Witness ==
    /\ pc = "done"
    /\ name(source_dir) \in EXCLUDED_DIRS
    /\ include_all_extensions
    /\ File_a_b_py \in tree
    /\ exitCode = << 0 >>

LaterEntriesDropped(e) ==
    /\ safe_name(e) \in processed_files
    /\ \A f \in (Visited \cap tree) \ { e } :
          (Accepted(f) /\ safe_name(f) = safe_name(e)) =>
              ( Warnings(f) = 1 /\ Attempts(f) = 0 )

====
